---- MODULE Spec2Model ----
(***************************************************************************)
(* The C# source generator of Cantera's sourcegen                          *)
(* (interfaces/sourcegen/sourcegen/csharp/_SourceGenerator.py).            *)
(*                                                                         *)
(* Identifiers that the code takes apart (function names, native property  *)
(* names) are sequences of one-character strings, so that split('_', 1),   *)
(* startswith, capitalize and re.match are computed character by           *)
(* character.  Type names and public names are only compared and           *)
(* concatenated, and are TLA+ strings.  Generated text is a record of the  *)
(* values the f-strings interpolate; normalize() and the preamble, which   *)
(* only lay the text out, are left out of the records.                     *)
(***************************************************************************)
EXTENDS Integers, Sequences, FiniteSets, TLC

\* How many calls of generate_source and finalize a run of the model makes.
MaxCalls == 3

(***************************************************************************)
(* str methods                                                             *)
(***************************************************************************)
LowerChars ==
  << "a", "b", "c", "d", "e", "f", "g", "h", "i", "j", "k", "l", "m",
     "n", "o", "p", "q", "r", "s", "t", "u", "v", "w", "x", "y", "z" >>

UpperChars ==
  << "A", "B", "C", "D", "E", "F", "G", "H", "I", "J", "K", "L", "M",
     "N", "O", "P", "Q", "R", "S", "T", "U", "V", "W", "X", "Y", "Z" >>

IsUpper(c) == \E k \in 1..Len(UpperChars) : UpperChars[k] = c

IsLower(c) == \E k \in 1..Len(LowerChars) : LowerChars[k] = c

Upper(c) ==
  IF IsLower(c)
  THEN UpperChars[CHOOSE k \in 1..Len(LowerChars) : LowerChars[k] = c]
  ELSE c

Lower(c) ==
  IF IsUpper(c)
  THEN LowerChars[CHOOSE k \in 1..Len(UpperChars) : UpperChars[k] = c]
  ELSE c

\* str.capitalize(): the first character upper-cased, all the others lower-cased.
Capitalize(s) ==
  [k \in 1..Len(s) |-> IF k = 1 THEN Upper(s[k]) ELSE Lower(s[k])]

\* str.startswith(prefix)
StartsWith(s, prefix) ==
  /\ Len(s) >= Len(prefix)
  /\ SubSeq(s, 1, Len(prefix)) = prefix

\* name.split('_', 1) yields two parts exactly when name holds a '_'.
HasSeparator(name) == \E k \in 1..Len(name) : name[k] = "_"

FirstSeparator(name) ==
  CHOOSE k \in 1..Len(name) :
    /\ name[k] = "_"
    /\ \A j \in 1..(k - 1) : name[j] # "_"

\* clazz, method = name.split('_', 1)
SplitClazz(name) == SubSeq(name, 1, FirstSeparator(name) - 1)

SplitMethod(name) == SubSeq(name, FirstSeparator(name) + 1, Len(name))

\* re.match('^set_[A-Z]{2}$', method); identifiers hold no newline, so '$' is
\* the end of the string.
MatchesSetPair(method) ==
  /\ Len(method) = 6
  /\ SubSeq(method, 1, 4) = << "s", "e", "t", "_" >>
  /\ IsUpper(method[5])
  /\ IsUpper(method[6])

\* p_type.endswith('*'), over the type names that occur.
PointerTypes ==
  { "double*", "byte*", "int*", "char*", "const char*", "const double*",
    "(double, double)*" }

EndsWithStar(t) == t \in PointerTypes

(***************************************************************************)
(* Values                                                                  *)
(***************************************************************************)
\* Python's None, for an Optional[str] and for a dict.get() that misses.
None == "None"

\* Param(p_type, name)
Param(p_type, name) == [p_type |-> p_type, name |-> name]

\* Func(ret_type, name, params), as the header parser hands it over.
Func(ret_type, name, params) ==
  [ret_type |-> ret_type, name |-> name, params |-> params]

\* _CsFunc(ret_type, name, params, del_clazz)
CsFunc(ret_type, name, params, del_clazz) ==
  [ret_type |-> ret_type, name |-> name, params |-> params,
   del_clazz |-> del_clazz]

\* An exception: its Python class, the statement that raises it, and what its
\* message names (a function name, a class prefix or a type).
Raise(exc, site, ident, type) ==
  [exc |-> exc, site |-> site, ident |-> ident, type |-> type]

NoError == Raise("None", "", << >>, "")

\* SourceGenerator._type_map: the first key equal to the type decides, and the
\* result is not mapped again.
TypeMap(t) ==
  CASE t = "const char*"   -> "string"
    [] t = "const double*" -> "double[]"
    [] t = "size_t"        -> "nuint"
    [] t = "char*"         -> "byte*"
    [] OTHER               -> t

\* SourceGenerator._prop_type_map
PropTypeKeys == { "byte*", "double*" }

PropTypeMap(t) ==
  CASE t = "byte*"   -> "string"
    [] t = "double*" -> "double[]"

(***************************************************************************)
(* _convert_func                                                           *)
(***************************************************************************)
\* The class prefix of the functions that belong to no class.
GlobalClazz == << "c", "t" >>

ThermoClazz == << "t", "h", "e", "r", "m", "o" >>

PrefixDel == << "d", "e", "l" >>

PrefixNew == << "n", "e", "w" >>

PrefixSet == << "s", "e", "t" >>

\* handle_clazz = self._config['handle_crosswalk'][clazz] + 'Handle'
HandleClazz(cfg, clazz) == cfg.handle_crosswalk[clazz] \o "Handle"

\* del_clazz after the classification: set for a 'del' method of a class.
ConvertDelClazz(clazz, method, handle_clazz) ==
  IF clazz # GlobalClazz /\ StartsWith(method, PrefixDel)
  THEN handle_clazz
  ELSE None

\* HandleRetType with the 'new' branch assigning nothing.
HandleRetType_NewIgnored(clazz, method, handle_clazz, ret_type) == ret_type

\* ret_type after the classification: replaced for a 'new' method of a class
\* (a 'del' method is tested first).
HandleRetType(clazz, method, handle_clazz, ret_type) ==
  IF /\ clazz # GlobalClazz
     /\ ~StartsWith(method, PrefixDel)
     /\ StartsWith(method, PrefixNew)
  THEN handle_clazz
  ELSE ret_type

\* Whether the classification reads and rewrites params[0].
TakesHandle(clazz, method) ==
  /\ clazz # GlobalClazz
  /\ ~StartsWith(method, PrefixDel)
  /\ ~StartsWith(method, PrefixNew)

\* HandleParams with the pair written the other way round:
\* params[0] = param_name, handle_clazz
HandleParams_Swapped(clazz, method, handle_clazz, params) ==
  IF TakesHandle(clazz, method)
  THEN [params EXCEPT ![1] = Param(params[1].name, handle_clazz)]
  ELSE params

\* _, param_name = params[0]; params[0] = handle_clazz, param_name
HandleParams(clazz, method, handle_clazz, params) ==
  IF TakesHandle(clazz, method)
  THEN [params EXCEPT ![1] = Param(handle_clazz, params[1].name)]
  ELSE params

\* if param_type == 'double*' and method.startswith('set')
IsSetterArray(method, param_type) ==
  param_type = "double*" /\ StartsWith(method, PrefixSet)

\* TooManyArrays with the limit off by one.
TooManyArrays_OffByOne(count) == count > 2

\* if setter_double_arrays_count > 1
TooManyArrays(count) == count > 1

\* SetterArrayType without the test of the class.
SetterArrayType_AnyClass(clazz, method) ==
  IF MatchesSetPair(method) THEN "(double, double)*" ELSE "double[]"

\* The type a setter's double* becomes.
SetterArrayType(clazz, method) ==
  IF clazz = ThermoClazz /\ MatchesSetPair(method)
  THEN "(double, double)*"
  ELSE "double[]"

NoFunc == CsFunc("", << >>, << >>, None)

\* The body of _convert_func up to the construction of the _CsFunc: the
\* function built, or the first exception raised on the way.  The loop over
\* the parameters raises at the first index at which the count of setter
\* arrays seen so far exceeds the limit; without such an index it rewrites
\* every parameter.
Converted(cfg, parsed) ==
  IF ~HasSeparator(parsed.name)
  THEN [err  |-> Raise("ValueError", "split", parsed.name, ""),
        func |-> NoFunc]
  ELSE
    LET name   == parsed.name
        clazz  == SplitClazz(name)
        method == SplitMethod(name)
    IN
    IF clazz # GlobalClazz /\ clazz \notin DOMAIN cfg.handle_crosswalk
    THEN [err  |-> Raise("KeyError", "handle_crosswalk", clazz, ""),
          func |-> NoFunc]
    ELSE IF TakesHandle(clazz, method) /\ Len(parsed.params) = 0
    THEN [err  |-> Raise("IndexError", "params[0]", name, ""),
          func |-> NoFunc]
    ELSE
      LET handle_clazz ==
            IF clazz # GlobalClazz THEN HandleClazz(cfg, clazz) ELSE None
          del_clazz == ConvertDelClazz(clazz, method, handle_clazz)
          ret_type ==
            TypeMap(HandleRetType(clazz, method, handle_clazz, parsed.ret_type))
          params == HandleParams(clazz, method, handle_clazz, parsed.params)
          mapped == [k \in 1..Len(params) |-> TypeMap(params[k].p_type)]
          count(k) ==
            Cardinality({j \in 1..k : IsSetterArray(method, mapped[j])})
          cs_params ==
            [k \in 1..Len(params) |->
               Param(IF IsSetterArray(method, mapped[k])
                     THEN SetterArrayType(clazz, method)
                     ELSE mapped[k],
                     params[k].name)]
      IN
      IF \E k \in 1..Len(params) :
           IsSetterArray(method, mapped[k]) /\ TooManyArrays(count(k))
      THEN [err  |-> Raise("ValueError", "more than one array", name, ""),
            func |-> NoFunc]
      ELSE [err  |-> NoError,
            func |-> CsFunc(ret_type, name, cs_params, del_clazz)]

\* Register starting from an empty dict: self._known_funcs = {name: func}
Register_Fresh(known, name, func) == [n \in {name} |-> func]

\* self._known_funcs[name] = func
Register(known, name, func) ==
  [n \in DOMAIN known \cup {name} |-> IF n = name THEN func ELSE known[n]]

\* ConvertFunc registering what it has before it knows the conversion succeeds.
ConvertFunc_RegisterFirst(known, cfg, parsed) ==
  LET r == Converted(cfg, parsed)
  IN [err   |-> r.err,
      func  |-> r.func,
      known |-> Register(known, parsed.name, r.func)]

\* _convert_func(parsed) on the registry `known`: the exception (NoError when
\* it returns), the function returned, and the registry afterwards.
ConvertFunc(known, cfg, parsed) ==
  LET r == Converted(cfg, parsed)
  IN [err   |-> r.err,
      func  |-> r.func,
      known |-> IF r.err = NoError
                THEN Register(known, parsed.name, r.func)
                ELSE known]

(***************************************************************************)
(* Text                                                                    *)
(***************************************************************************)
\* _get_function_text: the declaration of one function.
GetFunctionText(function) ==
  [unsafe   |-> \E k \in 1..Len(function.params) :
                  EndsWithStar(function.params[k].p_type),
   ret_type |-> function.ret_type,
   name     |-> function.name,
   params   |-> function.params]

\* _get_base_handle_text: class {del_clazz} : CanteraHandle, whose
\* ReleaseHandle calls LibCantera.{name}.
GetBaseHandleText(name, del_clazz) ==
  [class |-> del_clazz, release |-> name]

\* Handles without the filter: every function of the unit.
Handles_All(cs_funcs) == cs_funcs

\* handles = [(name, del_clazz) for _, name, _, del_clazz in cs_funcs if del_clazz]
Handles(cs_funcs) ==
  SelectSeq(cs_funcs, LAMBDA f : f.del_clazz # None /\ f.del_clazz # "")

\* _get_derived_handle_text: class {derived} : {base} { }
GetDerivedHandleText(d) == [class |-> d.derived, base |-> d.base]

(***************************************************************************)
(* _get_property_text                                                      *)
(***************************************************************************)
\* clazz + "_" + c_name
ScalarKey(clazz, c_name) == clazz \o << "_" >> \o c_name

\* clazz + "_get" + c_name.capitalize()
GetterKey(clazz, c_name) ==
  clazz \o << "_", "g", "e", "t" >> \o Capitalize(c_name)

\* clazz + "_set" + c_name.capitalize()
SetterKey(clazz, c_name) ==
  clazz \o << "_", "s", "e", "t" >> \o Capitalize(c_name)

\* prop_type in ['int', 'double']
ScalarTypes == { "int", "double" }

NoText ==
  [unsafe |-> FALSE, prop_type |-> "", cs_name |-> "", get |-> << >>,
   cast |-> "", set |-> << >>]

\* SetClause looking the setter up without capitalize():
\* clazz + "_set" + c_name
SetClause_NoCapitalize(known, clazz, c_name) ==
  IF clazz \o << "_", "s", "e", "t" >> \o c_name \in DOMAIN known
  THEN << known[clazz \o << "_", "s", "e", "t" >> \o c_name].name >>
  ELSE << >>

\* The set clause: LibCantera.{setter.name}(_handle, value), when the lookup
\* of the setter found one.
SetClause(known, clazz, c_name) ==
  IF SetterKey(clazz, c_name) \in DOMAIN known
  THEN << known[SetterKey(clazz, c_name)].name >>
  ELSE << >>

\* The accessor of a property whose getter and type are resolved.
AccessorText(known, clazz, c_name, cs_name, getter, prop_type) ==
  IF prop_type \in ScalarTypes
  THEN [err  |-> NoError,
        text |-> [unsafe |-> FALSE, prop_type |-> prop_type,
                  cs_name |-> cs_name, get |-> getter.name, cast |-> "",
                  set |-> SetClause(known, clazz, c_name)]]
  ELSE IF prop_type = "string"
  THEN IF Len(getter.params) < 2
       THEN [err  |-> Raise("IndexError", "getter.params[1]", getter.name, ""),
             text |-> NoText]
       ELSE [err  |-> NoError,
             text |-> [unsafe |-> TRUE, prop_type |-> prop_type,
                       cs_name |-> cs_name, get |-> getter.name,
                       cast |-> getter.params[2].p_type,
                       set |-> SetClause(known, clazz, c_name)]]
  ELSE [err  |-> Raise("ValueError", "Unable to scaffold properties of type",
                       << >>, prop_type),
        text |-> NoText]

\* Subscript as self._known_funcs.get(key): None instead of a KeyError.
Subscript_Get(known, key) ==
  [err |-> NoError, func |-> IF key \in DOMAIN known THEN known[key] ELSE NoFunc]

\* self._known_funcs[key]: the entry, or the KeyError of a missing key.
Subscript(known, key) ==
  IF key \in DOMAIN known
  THEN [err |-> NoError, func |-> known[key]]
  ELSE [err |-> Raise("KeyError", "_known_funcs", key, ""), func |-> NoFunc]

\* _get_property_text(clazz, c_name, cs_name) on the registry `known`: the
\* exception (NoError when it returns) and the text returned.
GetPropertyText(known, clazz, c_name, cs_name) ==
  IF ScalarKey(clazz, c_name) \in DOMAIN known
  THEN LET getter == known[ScalarKey(clazz, c_name)]
       IN AccessorText(known, clazz, c_name, cs_name, getter, getter.ret_type)
  ELSE
    LET found  == Subscript(known, GetterKey(clazz, c_name))
        getter == found.func
    IN
    IF found.err # NoError
    THEN [err |-> found.err, text |-> NoText]
    ELSE IF Len(getter.params) = 0
    THEN [err  |-> Raise("IndexError", "getter.params[-1]", getter.name, ""),
          text |-> NoText]
    ELSE
      LET last_type == getter.params[Len(getter.params)].p_type
      IN
      IF last_type \notin PropTypeKeys
      THEN [err  |-> Raise("KeyError", "_prop_type_map", << >>, last_type),
            text |-> NoText]
      ELSE AccessorText(known, clazz, c_name, cs_name, getter,
                        PropTypeMap(last_type))

(***************************************************************************)
(* Input: the headers the parser hands over, and the configurations        *)
(***************************************************************************)
Header_ct ==
  <<
    Func("int",
         << "c", "t", "_", "d", "e", "l", "A", "l", "l" >>,
         <<  >>)
  >>

Header_ctthing ==
  <<
    Func("int",
         << "t", "h", "i", "n", "g", "_", "n", "e", "w" >>,
         <<  >>),
    Func("size_t",
         << "t", "h", "i", "n", "g", "_", "n", "e", "w", "F", "r", "o", "m", "F", "i", "l", "e" >>,
         << Param("const char*", "file"), Param("int", "n") >>),
    Func("int",
         << "t", "h", "i", "n", "g", "_", "d", "e", "l" >>,
         << Param("int", "n") >>),
    Func("double",
         << "t", "h", "i", "n", "g", "_", "d", "e", "n", "s", "i", "t", "y" >>,
         << Param("int", "n") >>),
    Func("double",
         << "t", "h", "i", "n", "g", "_", "m", "o", "l", "a", "r", "D", "e", "n", "s", "i", "t", "y" >>,
         << Param("int", "n") >>),
    Func("int",
         << "t", "h", "i", "n", "g", "_", "s", "e", "t", "M", "o", "l", "a", "r", "D", "e", "n", "s", "i", "t", "y" >>,
         << Param("int", "n"), Param("double", "rho") >>),
    Func("double",
         << "t", "h", "i", "n", "g", "_", "p", "r", "e", "s", "s", "u", "r", "e" >>,
         << Param("int", "n") >>),
    Func("int",
         << "t", "h", "i", "n", "g", "_", "s", "e", "t", "P", "r", "e", "s", "s", "u", "r", "e" >>,
         << Param("int", "n"), Param("double", "p") >>),
    Func("int",
         << "t", "h", "i", "n", "g", "_", "g", "e", "t", "N", "a", "m", "e" >>,
         << Param("int", "n"), Param("size_t", "len"), Param("char*", "buf") >>),
    Func("int",
         << "t", "h", "i", "n", "g", "_", "s", "e", "t", "N", "a", "m", "e" >>,
         << Param("int", "n"), Param("const char*", "name") >>)
  >>

Header_ctthermo ==
  <<
    Func("int",
         << "t", "h", "e", "r", "m", "o", "_", "d", "e", "l" >>,
         << Param("int", "n") >>),
    Func("int",
         << "t", "h", "e", "r", "m", "o", "_", "s", "e", "t", "_", "T", "P" >>,
         << Param("int", "n"), Param("double*", "vals") >>),
    Func("int",
         << "t", "h", "e", "r", "m", "o", "_", "s", "e", "t", "_", "T", "P", "X" >>,
         << Param("int", "n"), Param("double*", "vals") >>),
    Func("int",
         << "t", "h", "e", "r", "m", "o", "_", "s", "e", "t", "S", "t", "a", "t", "e" >>,
         << Param("int", "n"), Param("const double*", "x"), Param("double*", "y") >>),
    Func("int",
         << "t", "h", "e", "r", "m", "o", "_", "g", "e", "t", "A", "r", "r" >>,
         << Param("int", "n"), Param("double*", "a") >>)
  >>

Header_ctprops ==
  <<
    Func("int",
         << "t", "h", "i", "n", "g", "_", "d", "e", "n", "s", "i", "t", "y" >>,
         << Param("int", "n") >>),
    Func("int",
         << "t", "h", "i", "n", "g", "_", "s", "e", "t", "D", "e", "n", "s", "i", "t", "y" >>,
         << Param("int", "n"), Param("double", "rho") >>),
    Func("const char*",
         << "t", "h", "i", "n", "g", "_", "n", "a", "m", "e" >>,
         << Param("int", "n"), Param("int", "m") >>),
    Func("int",
         << "t", "h", "i", "n", "g", "_", "g", "e", "t", "I", "d", "s" >>,
         << Param("int", "n"), Param("int*", "ids") >>),
    Func("size_t",
         << "t", "h", "i", "n", "g", "_", "i", "d" >>,
         << Param("int", "n") >>)
  >>

Header_ctpair ==
  <<
    Func("int",
         << "t", "h", "i", "n", "g", "_", "s", "e", "t", "A", "r", "r" >>,
         << Param("int", "n"), Param("double*", "a") >>),
    Func("int",
         << "t", "h", "i", "n", "g", "_", "r", "e", "s", "e", "t" >>,
         << Param("int", "n") >>),
    Func("int",
         << "t", "h", "i", "n", "g", "_", "s", "e", "t", "P", "a", "i", "r" >>,
         << Param("int", "n"), Param("double*", "a"), Param("double*", "b") >>),
    Func("int",
         << "t", "h", "i", "n", "g", "_", "a", "f", "t", "e", "r" >>,
         << Param("int", "n") >>)
  >>

Header_ctglobal ==
  <<
    Func("int",
         << "c", "t", "_", "s", "e", "t", "A", "r", "r" >>,
         << Param("double*", "a") >>),
    Func("int",
         << "c", "t", "_", "g", "e", "t", "V", "e", "r", "s", "i", "o", "n" >>,
         << Param("int", "len"), Param("char*", "buf") >>),
    Func("int",
         << "c", "t", "_", "s", "e", "t", "P", "a", "i", "r" >>,
         << Param("double*", "a"), Param("double*", "b") >>)
  >>

Header_ctfoo ==
  <<
    Func("int",
         << "f", "o", "o", "_", "b", "a", "r" >>,
         << Param("int", "n") >>)
  >>

Header_ctclear ==
  <<
    Func("int",
         << "t", "h", "i", "n", "g", "_", "s", "e", "t", "_", "T", "P" >>,
         << Param("int", "n"), Param("double*", "vals") >>),
    Func("int",
         << "t", "h", "i", "n", "g", "_", "s", "i", "z", "e" >>,
         << Param("int", "n") >>),
    Func("int",
         << "t", "h", "i", "n", "g", "_", "r", "a", "n", "k" >>,
         << Param("int", "n") >>),
    Func("int",
         << "t", "h", "i", "n", "g", "_", "c", "l", "e", "a", "r" >>,
         <<  >>)
  >>

Header_ctversion ==
  <<
    Func("int",
         << "v", "e", "r", "s", "i", "o", "n" >>,
         <<  >>)
  >>

\* The units generate_source may be called with: incl_file.name and funcs.
Headers ==
  <<
    [name |-> "ct", funcs |-> Header_ct],
    [name |-> "ctthing", funcs |-> Header_ctthing],
    [name |-> "ctthermo", funcs |-> Header_ctthermo],
    [name |-> "ctprops", funcs |-> Header_ctprops],
    [name |-> "ctpair", funcs |-> Header_ctpair],
    [name |-> "ctglobal", funcs |-> Header_ctglobal],
    [name |-> "ctfoo", funcs |-> Header_ctfoo],
    [name |-> "ctclear", funcs |-> Header_ctclear],
    [name |-> "ctversion", funcs |-> Header_ctversion]
  >>

\* config['handle_crosswalk']
HandleCrosswalk ==
  (<< "t", "h", "e", "r", "m", "o" >> :> "ThermoPhase")
    @@ (<< "t", "h", "i", "n", "g" >> :> "Thing")

\* config['derived_handles'], in the order of its items
DerivedHandles ==
  << [derived |-> "SurfaceHandle", base |-> "ThermoPhaseHandle"] >>

\* A configuration: handle_crosswalk, derived_handles, and classes in the
\* order of its items, each with its properties in the order of theirs.
Config(classes) ==
  [handle_crosswalk |-> HandleCrosswalk,
   derived_handles  |-> DerivedHandles,
   classes          |-> classes]

ConfigScalars ==
  Config(
    <<
      [clazz |-> << "t", "h", "i", "n", "g" >>,
       props |-> << [c_name |-> << "d", "e", "n", "s", "i", "t", "y" >>, cs_name |-> "Density"],
                    [c_name |-> << "m", "o", "l", "a", "r", "D", "e", "n", "s", "i", "t", "y" >>, cs_name |-> "MolarDensity"],
                    [c_name |-> << "p", "r", "e", "s", "s", "u", "r", "e" >>, cs_name |-> "Pressure"],
                    [c_name |-> << "n", "a", "m", "e" >>, cs_name |-> "Name"] >>]
    >>)

ConfigId ==
  Config(
    <<
      [clazz |-> << "t", "h", "e", "r", "m", "o" >>,
       props |-> <<  >>],
      [clazz |-> << "t", "h", "i", "n", "g" >>,
       props |-> << [c_name |-> << "i", "d" >>, cs_name |-> "Id"] >>]
    >>)

ConfigIds ==
  Config(
    <<
      [clazz |-> << "t", "h", "i", "n", "g" >>,
       props |-> << [c_name |-> << "i", "d", "s" >>, cs_name |-> "Ids"] >>]
    >>)

ConfigArr ==
  Config(
    <<
      [clazz |-> << "t", "h", "e", "r", "m", "o" >>,
       props |-> << [c_name |-> << "a", "r", "r" >>, cs_name |-> "Arr"] >>]
    >>)

ConfigGas ==
  Config(
    <<
      [clazz |-> << "t", "h", "e", "r", "m", "o" >>,
       props |-> <<  >>],
      [clazz |-> << "g", "a", "s" >>,
       props |-> <<  >>]
    >>)

Configs == { ConfigScalars, ConfigId, ConfigIds, ConfigArr, ConfigGas }

(***************************************************************************)
(* The generator                                                           *)
(***************************************************************************)
VARIABLES
  config,       \* self._config
  known_funcs,  \* self._known_funcs: name -> _CsFunc
  files,        \* the files written below out_dir: file name -> text
  pc,           \* "idle", or where the call in progress stands
  unit,         \* generate_source: incl_file.name and funcs
  i,            \* generate_source: the index of the next element of funcs
  cs_funcs,     \* generate_source: the functions converted so far
  ci,           \* finalize: the index of the next item of config['classes']
  pj,           \* finalize: the index of the next property of that class
  props_text,   \* finalize: the accessors of that class rendered so far
  raised,       \* the exception the last call ended with, NoError without
  calls         \* the calls made so far

vars ==
  << config, known_funcs, files, pc, unit, i, cs_funcs, ci, pj, props_text,
     raised, calls >>

NoUnit == [name |-> "", funcs |-> << >>]

\* The dict with no entry.
EmptyDict == [n \in {} |-> NoFunc]

\* with open(path, 'w') as f: f.write(text)
WriteFile(fs, path, text) ==
  [f \in DOMAIN fs \cup {path} |-> IF f = path THEN text ELSE fs[f]]

\* 'Interop.LibCantera.' + incl_file.name + '.g.cs'
InteropPath(incl) == "Interop.LibCantera." \o incl \o ".g.cs"

\* 'Interop.Handles.' + incl_file.name + '.g.cs'
HandlesPath(incl) == "Interop.Handles." \o incl \o ".g.cs"

DerivedHandlesPath == "Interop.Handles.g.cs"

\* name + '.g.cs'
ClassPath(name) == name \o ".g.cs"

\* The text of the declarations file of a unit.
InteropText(funcs) ==
  [functions |-> [k \in 1..Len(funcs) |-> GetFunctionText(funcs[k])]]

\* The text of the handles file of a unit.
HandlesText(handles) ==
  [handles |-> [k \in 1..Len(handles) |->
                  GetBaseHandleText(handles[k].name, handles[k].del_clazz)]]

\* The text of the derived handles file.
DerivedHandlesText(cfg) ==
  [derived |-> [k \in 1..Len(cfg.derived_handles) |->
                  GetDerivedHandleText(cfg.derived_handles[k])]]

\* The text of the file of a class: public partial class {name} with a
\* {name}Handle and the accessors.
ClassText(name, props) ==
  [class |-> name, handle |-> name \o "Handle", props |-> props]

\* __init__
Init ==
  /\ config \in Configs
  /\ known_funcs = EmptyDict
  /\ files = [f \in {} |-> NoText]
  /\ pc = "idle"
  /\ unit = NoUnit
  /\ i = 0
  /\ cs_funcs = << >>
  /\ ci = 0
  /\ pj = 0
  /\ props_text = << >>
  /\ raised = NoError
  /\ calls = 0

\* generate_source(incl_file, funcs) is called.
GenerateSource(h) ==
  /\ pc = "idle"
  /\ calls < MaxCalls
  /\ pc' = "convert"
  /\ unit' = Headers[h]
  /\ i' = 1
  /\ cs_funcs' = << >>
  /\ raised' = NoError
  /\ calls' = calls + 1
  /\ UNCHANGED << config, known_funcs, files, ci, pj, props_text >>

\* cs_funcs = [self._convert_func(f) for f in funcs]: one element.  An
\* exception ends generate_source.
ConvertStep ==
  /\ pc = "convert"
  /\ i <= Len(unit.funcs)
  /\ LET r == ConvertFunc(known_funcs, config, unit.funcs[i])
     IN IF r.err = NoError
        THEN /\ known_funcs' = r.known
             /\ cs_funcs' = Append(cs_funcs, r.func)
             /\ i' = i + 1
             /\ UNCHANGED << pc, unit, raised >>
        ELSE /\ known_funcs' = r.known
             /\ raised' = r.err
             /\ pc' = "idle"
             /\ unit' = NoUnit
             /\ i' = 0
             /\ cs_funcs' = << >>
  /\ UNCHANGED << config, files, ci, pj, props_text, calls >>

\* The rest of generate_source: the declarations file, and the handles file
\* when a function of the unit releases a handle.
WriteSource ==
  /\ pc = "convert"
  /\ i > Len(unit.funcs)
  /\ LET declared == WriteFile(files, InteropPath(unit.name),
                               InteropText(cs_funcs))
         handles == Handles(cs_funcs)
     IN files' = IF handles = << >>
                 THEN declared
                 ELSE WriteFile(declared, HandlesPath(unit.name),
                                HandlesText(handles))
  /\ pc' = "idle"
  /\ unit' = NoUnit
  /\ i' = 0
  /\ cs_funcs' = << >>
  /\ UNCHANGED << config, known_funcs, ci, pj, props_text, raised, calls >>

\* finalize() is called: the derived handles file.
Finalize ==
  /\ pc = "idle"
  /\ calls < MaxCalls
  /\ files' = WriteFile(files, DerivedHandlesPath, DerivedHandlesText(config))
  /\ pc' = "finalize"
  /\ ci' = 1
  /\ raised' = NoError
  /\ calls' = calls + 1
  /\ UNCHANGED << config, known_funcs, unit, i, cs_funcs, pj, props_text >>

\* for (clazz, props) in self._config['classes'].items():
\*     name = self._config['handle_crosswalk'][clazz]
FinalizeClass ==
  /\ pc = "finalize"
  /\ ci <= Len(config.classes)
  /\ LET clazz == config.classes[ci].clazz
     IN IF clazz \in DOMAIN config.handle_crosswalk
        THEN /\ pc' = "props"
             /\ pj' = 1
             /\ props_text' = << >>
             /\ UNCHANGED << ci, raised >>
        ELSE /\ raised' = Raise("KeyError", "handle_crosswalk", clazz, "")
             /\ pc' = "idle"
             /\ ci' = 0
             /\ UNCHANGED << pj, props_text >>
  /\ UNCHANGED << config, known_funcs, files, unit, i, cs_funcs, calls >>

\* props_text: one call of _get_property_text.  An exception ends finalize.
PropertyStep ==
  /\ pc = "props"
  /\ pj <= Len(config.classes[ci].props)
  /\ LET clazz == config.classes[ci].clazz
         prop  == config.classes[ci].props[pj]
         r     == GetPropertyText(known_funcs, clazz, prop.c_name, prop.cs_name)
     IN IF r.err = NoError
        THEN /\ props_text' = Append(props_text, r.text)
             /\ pj' = pj + 1
             /\ UNCHANGED << pc, ci, raised >>
        ELSE /\ raised' = r.err
             /\ pc' = "idle"
             /\ ci' = 0
             /\ pj' = 0
             /\ props_text' = << >>
  /\ UNCHANGED << config, known_funcs, files, unit, i, cs_funcs, calls >>

\* The file of the class, once every accessor of it is rendered.
WriteClass ==
  /\ pc = "props"
  /\ pj > Len(config.classes[ci].props)
  /\ LET name == config.handle_crosswalk[config.classes[ci].clazz]
     IN files' = WriteFile(files, ClassPath(name), ClassText(name, props_text))
  /\ pc' = "finalize"
  /\ ci' = ci + 1
  /\ pj' = 0
  /\ props_text' = << >>
  /\ UNCHANGED << config, known_funcs, unit, i, cs_funcs, raised, calls >>

\* finalize returns.
FinalizeReturn ==
  /\ pc = "finalize"
  /\ ci > Len(config.classes)
  /\ pc' = "idle"
  /\ ci' = 0
  /\ UNCHANGED << config, known_funcs, files, unit, i, cs_funcs, pj,
                  props_text, raised, calls >>

Next ==
  \/ \E h \in 1..Len(Headers) : GenerateSource(h)
  \/ ConvertStep
  \/ WriteSource
  \/ Finalize
  \/ FinalizeClass
  \/ PropertyStep
  \/ WriteClass
  \/ FinalizeReturn

Spec == Init /\ [][Next]_vars

(***************************************************************************)
(* Properties                                                              *)
(***************************************************************************)
\* Names the properties speak of.
THING_SETNAME == << "t", "h", "i", "n", "g", "_", "s", "e", "t", "N", "a", "m", "e" >>

THING_NEWFROMFILE == << "t", "h", "i", "n", "g", "_", "n", "e", "w", "F", "r", "o", "m", "F", "i", "l", "e" >>

THING_SETPAIR == << "t", "h", "i", "n", "g", "_", "s", "e", "t", "P", "a", "i", "r" >>

THING_SETARR == << "t", "h", "i", "n", "g", "_", "s", "e", "t", "A", "r", "r" >>

THERMO_SET_TP == << "t", "h", "e", "r", "m", "o", "_", "s", "e", "t", "_", "T", "P" >>

THERMO_SET_TPX == << "t", "h", "e", "r", "m", "o", "_", "s", "e", "t", "_", "T", "P", "X" >>

THING_DEL == << "t", "h", "i", "n", "g", "_", "d", "e", "l" >>

THING_DENSITY == << "t", "h", "i", "n", "g", "_", "d", "e", "n", "s", "i", "t", "y" >>

THING_MOLARDENSITY == << "t", "h", "i", "n", "g", "_", "m", "o", "l", "a", "r", "D", "e", "n", "s", "i", "t", "y" >>

THING_SETMOLARDENSITY == << "t", "h", "i", "n", "g", "_", "s", "e", "t", "M", "o", "l", "a", "r", "D", "e", "n", "s", "i", "t", "y" >>

THING_PRESSURE == << "t", "h", "i", "n", "g", "_", "p", "r", "e", "s", "s", "u", "r", "e" >>

THING_SETPRESSURE == << "t", "h", "i", "n", "g", "_", "s", "e", "t", "P", "r", "e", "s", "s", "u", "r", "e" >>

THING_GETDENSITY == << "t", "h", "i", "n", "g", "_", "g", "e", "t", "D", "e", "n", "s", "i", "t", "y" >>

THERMOSET == << "t", "h", "e", "r", "m", "o", "_", "s", "e", "t", "_" >>

\* A call of _convert_func is about to be made, with argument Arg.
Converting == pc = "convert" /\ i <= Len(unit.funcs)

Arg == unit.funcs[i]

\* The call of _convert_func made by this step returned the function Result.
Returned == pc' = "convert" /\ Len(cs_funcs') = i /\ raised' = NoError

Result == cs_funcs'[i]

\* The call made by this step raised, which ended generate_source.
Failed == pc' = "idle" /\ raised' # NoError

\* The signature belongs to a class registered in handle_crosswalk.
OfRegisteredClass(s) ==
  /\ HasSeparator(s.name)
  /\ SplitClazz(s.name) # << "c", "t" >>
  /\ SplitClazz(s.name) \in DOMAIN config.handle_crosswalk

\* The handle type of the class of the signature.
HandleTypeOf(s) == config.handle_crosswalk[SplitClazz(s.name)] \o "Handle"

MethodStarts(s, prefix) == StartsWith(SplitMethod(s.name), prefix)

\* The parameters of a 'set' method whose mapped type is double*: declared
\* double*, and not the parameter 0 that a class method gives up to the handle.
MappedArrays(s) ==
  {k \in 1..Len(s.params) :
     /\ s.params[k].p_type = "double*"
     /\ ~(k = 1 /\ SplitClazz(s.name) # << "c", "t" >>)}

\* A 'set' method whose class prefix resolves (global or registered).
IsSetter(s) ==
  /\ HasSeparator(s.name)
  /\ \/ SplitClazz(s.name) = << "c", "t" >>
     \/ SplitClazz(s.name) \in DOMAIN config.handle_crosswalk
  /\ MethodStarts(s, << "s", "e", "t" >>)

\* The name is "thermo_set_" followed by exactly two upper-case letters.
IsThermoPairSetter(s) ==
  /\ Len(s.name) = 13
  /\ SubSeq(s.name, 1, 11) = THERMOSET
  /\ \E a, b \in {UpperChars[k] : k \in 1..Len(UpperChars)} :
       SubSeq(s.name, 12, 13) = << a, b >>

\* An instance method of a registered class: neither 'new' nor 'del'.
IsInstanceMethod(s) ==
  /\ OfRegisteredClass(s)
  /\ ~MethodStarts(s, << "n", "e", "w" >>)
  /\ ~MethodStarts(s, << "d", "e", "l" >>)

\* C1 as claimed: for every signature X_method of a registered class X whose
\* method starts with neither "new" nor "del", _convert_func returns and
\* registers a function whose parameter 0 has X's handle type and the
\* original name of parameter 0.
C1_AlwaysReturnsHandleParam ==
  [][(Converting /\ IsInstanceMethod(Arg)) =>
       /\ Returned
       /\ Result.params # << >>
       /\ Result.params[1] = Param(HandleTypeOf(Arg), Arg.params[1].name)
       /\ Arg.name \in DOMAIN known_funcs'
       /\ known_funcs'[Arg.name] = Result]_vars

\* The calls of C1's kind that raise: no parameter 0 to rewrite, or a 'set'
\* method with a second double* parameter.
C1_Raises(s) ==
  \/ Len(s.params) = 0
  \/ MethodStarts(s, << "s", "e", "t" >>) /\ Cardinality(MappedArrays(s)) > 1

\* C1 as amended: such a call raises when the signature has no parameter 0 or
\* is a 'set' method with two double* parameters after the handle; in every
\* other case it returns and registers a function whose parameter 0 has X's
\* handle type and the original name of parameter 0.
C1_HandleParam ==
  [][(Converting /\ IsInstanceMethod(Arg)) =>
       IF C1_Raises(Arg)
       THEN Failed /\ known_funcs' = known_funcs
       ELSE /\ Returned
            /\ Result.params[1] = Param(HandleTypeOf(Arg), Arg.params[1].name)
            /\ Arg.name \in DOMAIN known_funcs'
            /\ known_funcs'[Arg.name] = Result]_vars

\* C1's case: thing_setName(int n, const char* name) was converted and its
\* parameter 0 is (ThingHandle, n).
C1_Witness ==
  /\ pc = "convert"
  /\ \E k \in 1..Len(cs_funcs) :
       /\ unit.funcs[k].name = THING_SETNAME
       /\ unit.funcs[k].params[1] = Param("int", "n")
       /\ cs_funcs[k].params[1] = Param("ThingHandle", "n")
       /\ known_funcs[THING_SETNAME] = cs_funcs[k]

\* C3: for every signature X_method of a registered class X whose method
\* starts with "new", the converted function's return type is X's handle
\* type, whatever the declared return type, and no parameter type is the
\* handle type.
C3_NewReturnsHandle ==
  [][(Converting /\ OfRegisteredClass(Arg)
        /\ MethodStarts(Arg, << "n", "e", "w" >>)) =>
       /\ Returned
       /\ Result.ret_type = HandleTypeOf(Arg)
       /\ Len(Result.params) = Len(Arg.params)
       /\ \A k \in 1..Len(Result.params) :
            Result.params[k].p_type # HandleTypeOf(Arg)]_vars

\* C3's case: thing_newFromFile, declared to return size_t, was converted to
\* return ThingHandle, its parameter 0 still a string.
C3_Witness ==
  /\ pc = "convert"
  /\ \E k \in 1..Len(cs_funcs) :
       /\ unit.funcs[k].name = THING_NEWFROMFILE
       /\ unit.funcs[k].ret_type = "size_t"
       /\ cs_funcs[k].ret_type = "ThingHandle"
       /\ cs_funcs[k].params[1] = Param("string", "file")

\* C4 as claimed: converting a 'set' method with two parameters of mapped
\* type double* fails with the array-arity error; with exactly one, it
\* succeeds and that parameter's type becomes double[].
C4_OneArrayBecomesDynamic ==
  [][(Converting /\ IsSetter(Arg)) =>
       /\ Cardinality(MappedArrays(Arg)) >= 2 =>
            /\ Failed
            /\ raised' = Raise("ValueError", "more than one array", Arg.name, "")
       /\ Cardinality(MappedArrays(Arg)) = 1 =>
            /\ Returned
            /\ \A k \in MappedArrays(Arg) :
                 Result.params[k].p_type = "double[]"]_vars

\* C4 as amended: with two such parameters the conversion fails with the
\* array-arity error; with exactly one it succeeds, and that parameter's type
\* becomes double[] unless the function is a thermo pair setter (thermo_set_
\* and two upper-case letters), whose parameter becomes (double, double)*.
C4_OneArrayConverted ==
  [][(Converting /\ IsSetter(Arg)) =>
       /\ Cardinality(MappedArrays(Arg)) >= 2 =>
            /\ Failed
            /\ raised' = Raise("ValueError", "more than one array", Arg.name, "")
       /\ Cardinality(MappedArrays(Arg)) = 1 =>
            /\ Returned
            /\ \A k \in MappedArrays(Arg) :
                 Result.params[k].p_type =
                   IF IsThermoPairSetter(Arg)
                   THEN "(double, double)*"
                   ELSE "double[]"]_vars

\* C4's case: in one unit thing_setArr(int n, double* a) was converted, its
\* array now double[], and thing_setPair, with two arrays, then failed with
\* the array-arity error.
C4_Witness ==
  /\ pc = "idle"
  /\ raised = Raise("ValueError", "more than one array", THING_SETPAIR, "")
  /\ THING_SETARR \in DOMAIN known_funcs
  /\ known_funcs[THING_SETARR].params[2] = Param("double[]", "a")

\* C5: the single double* parameter of a converted 'set' method becomes
\* (double, double)* when the class is thermo and the method is set_ followed
\* by exactly two upper-case letters, and double[] for every other class and
\* method.
C5_ThermoPair ==
  [][(Converting /\ IsSetter(Arg) /\ Cardinality(MappedArrays(Arg)) = 1
        /\ Returned) =>
       \A k \in MappedArrays(Arg) :
         /\ IsThermoPairSetter(Arg) =>
              Result.params[k].p_type = "(double, double)*"
         /\ ~IsThermoPairSetter(Arg) =>
              Result.params[k].p_type = "double[]"]_vars

\* C5's case: thermo_set_TP and thermo_set_TPX were converted in one unit, the
\* first to a pair pointer and the second to an array.
C5_Witness ==
  /\ pc = "convert"
  /\ \E k, m \in 1..Len(cs_funcs) :
       /\ cs_funcs[k].name = THERMO_SET_TP
       /\ cs_funcs[k].params[2].p_type = "(double, double)*"
       /\ cs_funcs[m].name = THERMO_SET_TPX
       /\ cs_funcs[m].params[2].p_type = "double[]"

\* A 'del' method of a registered class.
IsRelease(s) == OfRegisteredClass(s) /\ MethodStarts(s, << "d", "e", "l" >>)

\* The rest of generate_source is about to run: every function converted.
Emitting == pc = "convert" /\ i > Len(unit.funcs)

\* C2: a 'del' method of a registered class X converts to a function whose
\* del_clazz is X's handle type and whose return type is not the handle type;
\* generate_source for its unit writes a handles file with a base class named
\* by that handle type whose ReleaseHandle calls that function; for a unit
\* with no such function it writes no handles file.
C2_ReleaseBinding ==
  [][/\ (Converting /\ IsRelease(Arg)) =>
          /\ Returned
          /\ Result.del_clazz = HandleTypeOf(Arg)
          /\ Result.ret_type # HandleTypeOf(Arg)
     /\ Emitting =>
          LET path == "Interop.Handles." \o unit.name \o ".g.cs"
              released == {k \in 1..Len(unit.funcs) : IsRelease(unit.funcs[k])}
          IN IF released # {}
             THEN /\ path \in DOMAIN files'
                  /\ \A k \in released :
                       \E m \in 1..Len(files'[path].handles) :
                         files'[path].handles[m] =
                           [class   |-> HandleTypeOf(unit.funcs[k]),
                            release |-> unit.funcs[k].name]
                  /\ Len(files'[path].handles) = Cardinality(released)
             ELSE /\ path \in DOMAIN files' <=> path \in DOMAIN files
                  /\ path \in DOMAIN files => files'[path] = files[path]]_vars

\* C2's case: generate_source ran for the unit ctthing, which holds thing_del,
\* and for the unit ct, whose only 'del' function is the global ct_delAll: the
\* first has a handles file binding ThingHandle to thing_del, the second has
\* none.
C2_Witness ==
  /\ "Interop.Handles.ctthing.g.cs" \in DOMAIN files
  /\ files["Interop.Handles.ctthing.g.cs"].handles =
       << [class |-> "ThingHandle", release |-> THING_DEL] >>
  /\ THING_DEL \in DOMAIN known_funcs
  /\ known_funcs[THING_DEL].del_clazz = "ThingHandle"
  /\ known_funcs[THING_DEL].ret_type = "int"
  /\ "Interop.LibCantera.ct.g.cs" \in DOMAIN files
  /\ "Interop.Handles.ct.g.cs" \notin DOMAIN files

\* C6 as claimed: no step replaces or removes an entry of the registry, and
\* each successful call of _convert_func adds exactly one entry, keyed by the
\* signature's name.
C6_WriteOnce ==
  [][/\ \A n \in DOMAIN known_funcs :
          n \in DOMAIN known_funcs' /\ known_funcs'[n] = known_funcs[n]
     /\ (Converting /\ Returned) =>
          /\ Arg.name \in DOMAIN known_funcs'
          /\ Cardinality(DOMAIN known_funcs') =
               Cardinality(DOMAIN known_funcs) + 1]_vars

\* C6 as amended: no step removes a key of the registry or changes the entry
\* of any name other than the one being converted; each successful call of
\* _convert_func leaves the function it returns under the signature's
\* unmodified name, as a new entry when the name was not registered and in
\* place of the old entry when it was; no other step changes the registry.
C6_AppendOrOverwrite ==
  [][IF Converting /\ Returned
     THEN /\ DOMAIN known_funcs' = DOMAIN known_funcs \cup {Arg.name}
          /\ known_funcs'[Arg.name] = Result
          /\ Result.name = Arg.name
          /\ \A n \in DOMAIN known_funcs \ {Arg.name} :
               known_funcs'[n] = known_funcs[n]
     ELSE known_funcs' = known_funcs]_vars

\* C6's case: thing_density was converted in the unit ctthing (returning
\* double) and again in the unit ctprops (returning int): the registry holds
\* the later function, and still holds the other functions of ctthing.
C6_Witness ==
  /\ "Interop.LibCantera.ctthing.g.cs" \in DOMAIN files
  /\ "Interop.LibCantera.ctprops.g.cs" \in DOMAIN files
  /\ files["Interop.LibCantera.ctthing.g.cs"].functions[4].name = THING_DENSITY
  /\ files["Interop.LibCantera.ctthing.g.cs"].functions[4].ret_type = "double"
  /\ known_funcs[THING_DENSITY].ret_type = "int"
  /\ THING_DEL \in DOMAIN known_funcs

\* The class prefix of the signature is not global and has no entry in
\* handle_crosswalk.
OfUnknownClass(s) ==
  /\ HasSeparator(s.name)
  /\ SplitClazz(s.name) # << "c", "t" >>
  /\ SplitClazz(s.name) \notin DOMAIN config.handle_crosswalk

\* C7: a call of _convert_func for a signature of an unregistered class, or
\* for a 'set' method with two double* parameters, raises and leaves the
\* registry as it was, the signature's name not added to it, and
\* generate_source ends without writing a file.
C7_FailureRegistersNothing ==
  [][(/\ Converting
      /\ \/ OfUnknownClass(Arg)
         \/ IsSetter(Arg) /\ Cardinality(MappedArrays(Arg)) >= 2) =>
       /\ Failed
       /\ raised' =
            IF OfUnknownClass(Arg)
            THEN Raise("KeyError", "handle_crosswalk", SplitClazz(Arg.name), "")
            ELSE Raise("ValueError", "more than one array", Arg.name, "")
       /\ known_funcs' = known_funcs
       /\ Arg.name \notin DOMAIN known_funcs => Arg.name \notin DOMAIN known_funcs'
       /\ files' = files]_vars

\* C7's case: generate_source for the unit ctpair converted thing_setArr and
\* then failed at thing_setPair: thing_setPair is not registered and the unit
\* has no declarations file.
C7_Witness ==
  /\ pc = "idle"
  /\ raised = Raise("ValueError", "more than one array", THING_SETPAIR, "")
  /\ THING_SETARR \in DOMAIN known_funcs
  /\ THING_SETPAIR \notin DOMAIN known_funcs
  /\ "Interop.LibCantera.ctpair.g.cs" \notin DOMAIN files

\* A call of _get_property_text is about to be made, for the property Prop of
\* the class PropClazz.
Rendering == pc = "props" /\ pj <= Len(config.classes[ci].props)

PropClazz == config.classes[ci].clazz

Prop == config.classes[ci].props[pj]

\* The call of _get_property_text made by this step returned Accessor.
Rendered == pc' = "props" /\ Len(props_text') = pj /\ raised' = NoError

Accessor == props_text'[pj]

\* The call made by this step raised, which ended finalize.
RenderFailed == pc' = "idle" /\ raised' # NoError

\* class + "_" + nativeName
NativeGetter == PropClazz \o << "_" >> \o Prop.c_name

\* class + "_get" + capitalize(nativeName)
NativeArrayGetter ==
  PropClazz \o << "_", "g", "e", "t" >> \o Capitalize(Prop.c_name)

\* class + "_set" + capitalize(nativeName)
NativeSetter ==
  PropClazz \o << "_", "s", "e", "t" >> \o Capitalize(Prop.c_name)

\* C8: for a property whose class has a scalar getter registered as
\* class_nativeName, _get_property_text returns an accessor of the getter's
\* type and the public name whose get clause calls that name; its set clause
\* calls class_set<Capitalized nativeName> when a setter is registered under
\* that name, and it has no set clause when none is.
C8_ScalarAccessor ==
  [][(/\ Rendering
      /\ NativeGetter \in DOMAIN known_funcs
      /\ known_funcs[NativeGetter].ret_type \in {"int", "double"}) =>
       /\ Rendered
       /\ Accessor.get = NativeGetter
       /\ Accessor.cs_name = Prop.cs_name
       /\ Accessor.prop_type = known_funcs[NativeGetter].ret_type
       /\ NativeSetter \in DOMAIN known_funcs =>
            Accessor.set = << NativeSetter >>
       /\ NativeSetter \notin DOMAIN known_funcs =>
            Accessor.set = << >>]_vars

\* C8's case: with the unit ctthing converted, the accessors of density (no
\* setter registered), molarDensity (thing_setMolarDensity is registered, but
\* not under thing_setMolardensity) and pressure (thing_setPressure) are
\* rendered: read-only, read-only, read-write.
C8_Witness ==
  /\ pc = "props"
  /\ Len(props_text) >= 3
  /\ THING_SETMOLARDENSITY \in DOMAIN known_funcs
  /\ props_text[1].get = THING_DENSITY /\ props_text[1].set = << >>
  /\ props_text[2].get = THING_MOLARDENSITY /\ props_text[2].set = << >>
  /\ props_text[3].get = THING_PRESSURE
  /\ props_text[3].set = << THING_SETPRESSURE >>

\* The unsupported-property-type error naming the type t: the ValueError
\* 'Unable to scaffold properties of type t', or the KeyError of t missing
\* from the property type table.
UnsupportedPropertyType(e, t) ==
  /\ e.type = t
  /\ \/ e.exc = "ValueError" /\ e.site = "Unable to scaffold properties of type"
     \/ e.exc = "KeyError" /\ e.site = "_prop_type_map"

\* C9 as claimed: _get_property_text fails with the unsupported-property-type
\* error naming the type, and returns no text, when the property resolves
\* through class_nativeName to a return type other than int and double, and
\* when it resolves through class_get<NativeName> to a last parameter whose
\* type has no entry in the property type table.
C9_UnsupportedTypeFails ==
  [][/\ (/\ Rendering
         /\ NativeGetter \in DOMAIN known_funcs
         /\ known_funcs[NativeGetter].ret_type \notin {"int", "double"}) =>
          /\ RenderFailed
          /\ UnsupportedPropertyType(raised', known_funcs[NativeGetter].ret_type)
     /\ (/\ Rendering
         /\ NativeGetter \notin DOMAIN known_funcs
         /\ NativeArrayGetter \in DOMAIN known_funcs
         /\ known_funcs[NativeArrayGetter].params # << >>
         /\ LET ps == known_funcs[NativeArrayGetter].params
            IN ps[Len(ps)].p_type \notin {"byte*", "double*"}) =>
          /\ RenderFailed
          /\ LET ps == known_funcs[NativeArrayGetter].params
             IN UnsupportedPropertyType(raised', ps[Len(ps)].p_type)]_vars

\* A call of finalize is in progress, or begins with this step.
Finalizing == pc \in {"finalize", "props"} \/ pc' = "finalize"

\* C10: no step of finalize changes the registry; and a call of
\* _get_property_text for a property with neither class_nativeName nor
\* class_get<NativeName> registered raises the KeyError of the missing
\* registry entry, which ends finalize with nothing converted and no file
\* written for that class.
C10_FinalizeOnlyReads ==
  [][/\ Finalizing => known_funcs' = known_funcs
     /\ (/\ Rendering
         /\ NativeGetter \notin DOMAIN known_funcs
         /\ NativeArrayGetter \notin DOMAIN known_funcs) =>
          /\ RenderFailed
          /\ raised' = Raise("KeyError", "_known_funcs", NativeArrayGetter, "")
          /\ files' = files
          /\ known_funcs' = known_funcs]_vars

\* C10's case: finalize ran before any unit declaring thing_density or
\* thing_getDensity was converted: it ended with the KeyError of
\* thing_getDensity, the derived handles file written and no file for Thing.
C10_Witness ==
  /\ pc = "idle"
  /\ raised = Raise("KeyError", "_known_funcs", THING_GETDENSITY, "")
  /\ "Interop.Handles.g.cs" \in DOMAIN files
  /\ "Thing.g.cs" \notin DOMAIN files
  /\ THING_DENSITY \notin DOMAIN known_funcs

====
